---- MODULE Spec2Model ----
(***************************************************************************)
(* A model of the two entry points of OneClassMetricLearning:              *)
(*   - experiments/run_mnist.sh, the experiment driver (a bash loop);      *)
(*   - legacy_notebooks/run_toy_2d_baselines.ipynb, the functions          *)
(*     get_sk_contour and get_sk_model.                                    *)
(* The two do not share state; each has its own specification.             *)
(***************************************************************************)
EXTENDS Integers, Sequences, FiniteSets, TLC

(* ------------------------------ bounds -------------------------------- *)

\* Largest repeat count $1 the driver is started with.
MaxRepeat == 2

\* Largest resolution get_sk_contour is called with.
MaxRes == 3

\* Domain bounds are drawn from -MaxCoord..MaxCoord.
MaxCoord == 2

VARIABLES
  \* ---- run_mnist.sh ----
  pc,           \* position of the shell in the script
  argv,         \* [n |-> $1, tag |-> $2]
  ci,           \* index in the word list of "for c" (0: before the loop)
  seqOut,       \* the words `seq 1 $1` expanded to when the inner loop began
  ii,           \* index in seqOut of "for i" (0: before the first)
  invocations,  \* every python sub-invocation issued so far, in order
  active,       \* indices (in invocations) of the children still running
  lastStatus,   \* $?: the exit status of the last command
  failures,     \* how many children exited non-zero (history)
  stdout,       \* the lines echoed so far
  \* ---- run_toy_2d_baselines.ipynb ----
  nb_pc,        \* position of the interpreter in the called function
  nb_args,      \* the arguments of the call in progress
  x_coords, y_coords, x_grid, y_grid, grid, z_grid,  \* locals of get_sk_contour
  sk_model,     \* local of get_sk_model ("unbound" until assigned)
  nb_ret,       \* the value returned ("none" until a return)
  nb_exc,       \* the exception raised ("none" when none)
  scoreCalls    \* how many times decision_function was called

driverVars == <<pc, argv, ci, seqOut, ii, invocations, active, lastStatus,
                failures, stdout>>
nbVars == <<nb_pc, nb_args, x_coords, y_coords, x_grid, y_grid, grid, z_grid,
            sk_model, nb_ret, nb_exc, scoreCalls>>
vars == <<pc, argv, ci, seqOut, ii, invocations, active, lastStatus,
          failures, stdout, nb_pc, nb_args, x_coords, y_coords, x_grid,
          y_grid, grid, z_grid, sk_model, nb_ret, nb_exc, scoreCalls>>

(* ======================= experiments/run_mnist.sh ===================== *)

\* The word list of "for c in 0 1 2 3 5 6 7 9".
classes == <<"0", "1", "2", "3", "5", "6", "7", "9">>

\* The run-group tags ($2) the driver is started with; "" is a missing $2.
Tags == {"xp1", "xp2", ""}

\* Exit statuses of a command: success, or a failure.
ExitCodes == {0, 1}

\* `seq 1 $1` started at 0: one repeat too many.
SeqExpandFromZero(n) == [k \in 1..(n + 1) |-> k - 1]

\* `seq 1 $1`: the words 1 .. n, none when n < 1.
SeqExpand(n) == [k \in 1..n |-> k]

\* WANDB_GROUP=mnist$c_$2: bash reads the variable c_ (unset), the class is lost.
RunEnvNoBraces(c, tag) ==
  [PLOTLY_RENDERER |-> "png", DATASET_NAME |-> "mnist", IN_CLASS |-> c,
   WANDB_GROUP |-> "mnist" \o tag]

\* The assignments prefixed to the python command: the child's environment.
RunEnv(c, tag) ==
  [PLOTLY_RENDERER |-> "png", DATASET_NAME |-> "mnist", IN_CLASS |-> c,
   WANDB_GROUP |-> "mnist" \o c \o "_" \o tag]

\* Under `set -e` the shell would exit at the first failing child.
AfterExitErrexit(st) == IF st = 0 THEN "for_i" ELSE "done"

\* The script sets no errexit and tests no status: the loop goes on.
AfterExit(st) == "for_i"

\* The script is started with $1 and $2; the notebook is not running.
DriverInit ==
  /\ pc = "convert"
  /\ argv \in [n : 0..MaxRepeat, tag : Tags]
  /\ ci = 0
  /\ seqOut = <<>>
  /\ ii = 0
  /\ invocations = <<>>
  /\ active = {}
  /\ lastStatus = 0
  /\ failures = 0
  /\ stdout = <<>>
  /\ nb_pc = "off"
  /\ nb_args = [fn |-> "none"]
  /\ x_coords = [den |-> 1, num |-> <<>>]
  /\ y_coords = [den |-> 1, num |-> <<>>]
  /\ x_grid = <<>>
  /\ y_grid = <<>>
  /\ grid = <<>>
  /\ z_grid = <<>>
  /\ sk_model = [kind |-> "unbound"]
  /\ nb_ret = [kind |-> "none"]
  /\ nb_exc = "none"
  /\ scoreCalls = 0

\* Line 7: jupyter nbconvert, a foreground command whose status is not tested.
NbConvert ==
  /\ pc = "convert"
  /\ \E st \in ExitCodes : lastStatus' = st
  /\ pc' = "for_c"
  /\ UNCHANGED <<argv, ci, seqOut, ii, invocations, active, failures, stdout>>
  /\ UNCHANGED nbVars

\* Lines 8-10: the next word of "for c", its echo, and the expansion of
\* `seq 1 $1` for the inner loop; past the last word the script ends.
NextClass ==
  /\ pc = "for_c"
  /\ IF ci < Len(classes)
       THEN /\ ci' = ci + 1
            /\ stdout' = Append(stdout, [line |-> "class", c |-> classes[ci + 1]])
            /\ seqOut' = SeqExpand(argv.n)
            /\ ii' = 0
            /\ lastStatus' = 0
            /\ pc' = "for_i"
       ELSE /\ pc' = "done"
            /\ UNCHANGED <<ci, stdout, seqOut, ii, lastStatus>>
  /\ UNCHANGED <<argv, invocations, active, failures>>
  /\ UNCHANGED nbVars

\* Lines 10-11: the next word of "for i" and its echo; past the last word the
\* outer loop goes on.
NextRepeat ==
  /\ pc = "for_i"
  /\ IF ii < Len(seqOut)
       THEN /\ ii' = ii + 1
            /\ stdout' = Append(stdout,
                 [line |-> "run", i |-> seqOut[ii + 1], script |-> "$0",
                  group |-> "mnist" \o classes[ci] \o "_" \o argv.tag,
                  c |-> classes[ci]])
            /\ lastStatus' = 0
            /\ pc' = "exec"
       ELSE /\ pc' = "for_c"
            /\ UNCHANGED <<ii, stdout, lastStatus>>
  /\ UNCHANGED <<argv, ci, seqOut, invocations, active, failures>>
  /\ UNCHANGED nbVars

\* The python command started with `&`: the shell does not wait for it.
LaunchBackground ==
  /\ pc = "exec"
  /\ invocations' = Append(invocations,
       [c |-> classes[ci], i |-> seqOut[ii], env |-> RunEnv(classes[ci], argv.tag)])
  /\ active' = active \cup {Len(invocations) + 1}
  /\ pc' = "for_i"
  /\ UNCHANGED <<argv, ci, seqOut, ii, lastStatus, failures, stdout>>
  /\ UNCHANGED nbVars

\* Line 12: the python command is started in the foreground with its
\* environment; the shell waits for it.
Launch ==
  /\ pc = "exec"
  /\ invocations' = Append(invocations,
       [c |-> classes[ci], i |-> seqOut[ii], env |-> RunEnv(classes[ci], argv.tag)])
  /\ active' = active \cup {Len(invocations) + 1}
  /\ pc' = "wait"
  /\ UNCHANGED <<argv, ci, seqOut, ii, lastStatus, failures, stdout>>
  /\ UNCHANGED nbVars

\* Line 12, end: the child exits with some status, which becomes $?; line 13
\* goes back to the inner loop whatever the status.
ChildExit ==
  /\ pc = "wait"
  /\ \E k \in active, st \in ExitCodes :
       /\ active' = active \ {k}
       /\ lastStatus' = st
       /\ failures' = IF st = 0 THEN failures ELSE failures + 1
       /\ pc' = AfterExit(st)
  /\ UNCHANGED <<argv, ci, seqOut, ii, invocations, stdout>>
  /\ UNCHANGED nbVars

DriverNext == NbConvert \/ NextClass \/ NextRepeat \/ Launch \/ ChildExit

DriverSpec == DriverInit /\ [][DriverNext]_vars

\* The shell always takes its next step, and every child runs to completion.
FairDriverSpec == DriverSpec /\ WF_vars(DriverNext)

(* =============== legacy_notebooks/run_toy_2d_baselines.ipynb ========== *)

\* Numbers are exact rationals: a coordinate sequence is [den, num], the
\* numerators num[k] over the one denominator den > 0.

\* np.linspace(start, stop, num, endpoint=False): the step is delta / num.
linspaceNoEndpoint(start, stop, num) ==
  IF num <= 0 THEN [den |-> 1, num |-> <<>>]
  ELSE [den |-> num,
        num |-> [k \in 1..num |-> (k - 1) * (stop - start) + start * num]]

\* np.linspace(start, stop, num), num >= 0: div = num - 1, step = delta / div,
\* y = arange(num) * step + start, and the last element is set to stop.
linspace(start, stop, num) ==
  IF num = 0 THEN [den |-> 1, num |-> <<>>]
  ELSE IF num = 1 THEN [den |-> 1, num |-> <<start>>]
  ELSE LET div == num - 1
           delta == stop - start
       IN [den |-> div,
           num |-> [k \in 1..num |->
                      IF k = num THEN stop * div
                      ELSE (k - 1) * delta + start * div]]

\* np.meshgrid(x, y), indexing 'xy': both of shape (len(y), len(x)).
meshgrid_x(x, y) == [j \in 1..Len(y) |-> [i \in 1..Len(x) |-> x[i]]]
meshgrid_y(x, y) == [j \in 1..Len(y) |-> [i \in 1..Len(x) |-> y[j]]]

\* ndarray.shape of a 2-d array held as a sequence of rows.
shape(g) == <<Len(g), IF Len(g) = 0 THEN 0 ELSE Len(g[1])>>

\* ndarray.flatten(): row-major (C order).
flatten(g) ==
  LET cols == shape(g)[2]
  IN [k \in 1..(Len(g) * cols) |-> g[((k - 1) \div cols) + 1][((k - 1) % cols) + 1]]

\* np.stack([a, b], axis=-1): row k is (a[k], b[k]).
stack(a, b) == [k \in 1..Len(a) |-> <<a[k], b[k]>>]

\* reshape(shape, order='F'): column-major.
reshapeFortran(z, shp) ==
  [j \in 1..shp[1] |-> [i \in 1..shp[2] |-> z[(i - 1) * shp[1] + j]]]

\* ndarray.reshape(shape): row-major (C order).
reshape(z, shp) ==
  [j \in 1..shp[1] |-> [i \in 1..shp[2] |-> z[(j - 1) * shp[2] + i]]]

\* The classifiers get_sk_contour is called with: the score of (x, y) is
\* wx*x + wy*y + b, different in x and in y.
Models == {[wx |-> 1, wy |-> -2, b |-> 0], [wx |-> 3, wy |-> 1, b |-> 1]}

\* The score of one point, a numerator over den.
ScorePoint(model, p, den) == model.wx * p[1] + model.wy * p[2] + model.b * den

\* model.decision_function(grid): one score per row of grid, in order.
decision_function(model, g, den) ==
  [k \in 1..Len(g) |-> ScorePoint(model, g[k], den)]

\* The domains and resolutions get_sk_contour is called with; nothing in the
\* function restricts them (np.linspace itself refuses a negative resolution).
Domains == (-MaxCoord..MaxCoord) \X (-MaxCoord..MaxCoord)
Resolutions == 0..MaxRes

\* The identifiers get_sk_model is called with.
ModelNames == {"if", "ocsvm", "isolation-forest", "one-class-svm", "bogus"}

\* outliers_fraction = 0.5, a digit lost.
outliers_fraction_typo == <<5, 10>>

\* Line 60: outliers_fraction = 0.05, as 5/100.
outliers_fraction == <<5, 100>>

IsolationForest(contamination) ==
  [kind |-> "IsolationForest", contamination |-> contamination]

OneClassSVM(nu, kernel, gamma) ==
  [kind |-> "OneClassSVM", nu |-> nu, kernel |-> kernel, gamma |-> gamma]

\* The notebook's functions are defined and none is called yet; the driver
\* is not running.
NotebookInit ==
  /\ nb_pc = "idle"
  /\ nb_args = [fn |-> "none"]
  /\ x_coords = [den |-> 1, num |-> <<>>]
  /\ y_coords = [den |-> 1, num |-> <<>>]
  /\ x_grid = <<>>
  /\ y_grid = <<>>
  /\ grid = <<>>
  /\ z_grid = <<>>
  /\ sk_model = [kind |-> "unbound"]
  /\ nb_ret = [kind |-> "none"]
  /\ nb_exc = "none"
  /\ scoreCalls = 0
  /\ pc = "off"
  /\ argv = [n |-> 0, tag |-> ""]
  /\ ci = 0
  /\ seqOut = <<>>
  /\ ii = 0
  /\ invocations = <<>>
  /\ active = {}
  /\ lastStatus = 0
  /\ failures = 0
  /\ stdout = <<>>

\* A call get_sk_contour(model, domain, resolution).
CallGetSkContour ==
  /\ nb_pc = "idle"
  /\ \E m \in Models, d \in Domains, r \in Resolutions :
       nb_args' = [fn |-> "get_sk_contour", model |-> m, domain |-> d,
                   resolution |-> r]
  /\ nb_pc' = "contour_coords"
  /\ UNCHANGED <<x_coords, y_coords, x_grid, y_grid, grid, z_grid, sk_model,
                 nb_ret, nb_exc, scoreCalls>>
  /\ UNCHANGED driverVars

\* Lines 32-35: the bounds of both axes are domain[0], domain[1].
ContourCoords ==
  /\ nb_pc = "contour_coords"
  /\ LET xmin == nb_args.domain[1]
         xmax == nb_args.domain[2]
         ymin == nb_args.domain[1]
         ymax == nb_args.domain[2]
     IN /\ x_coords' = linspace(xmin, xmax, nb_args.resolution)
        /\ y_coords' = linspace(ymin, ymax, nb_args.resolution)
  /\ nb_pc' = "contour_grid"
  /\ UNCHANGED <<nb_args, x_grid, y_grid, grid, z_grid, sk_model, nb_ret,
                 nb_exc, scoreCalls>>
  /\ UNCHANGED driverVars

\* Lines 36-37: the mesh and the flat list of its points.
ContourGrid ==
  /\ nb_pc = "contour_grid"
  /\ x_grid' = meshgrid_x(x_coords.num, y_coords.num)
  /\ y_grid' = meshgrid_y(x_coords.num, y_coords.num)
  /\ grid' = stack(flatten(x_grid'), flatten(y_grid'))
  /\ nb_pc' = "contour_score"
  /\ UNCHANGED <<nb_args, x_coords, y_coords, z_grid, sk_model, nb_ret, nb_exc,
                 scoreCalls>>
  /\ UNCHANGED driverVars

\* Line 38: one batched call of the model's scoring function.
ContourScore ==
  /\ nb_pc = "contour_score"
  /\ z_grid' = decision_function(nb_args.model, grid, x_coords.den)
  /\ scoreCalls' = scoreCalls + 1
  /\ nb_pc' = "contour_return"
  /\ UNCHANGED <<nb_args, x_coords, y_coords, x_grid, y_grid, grid, sk_model,
                 nb_ret, nb_exc>>
  /\ UNCHANGED driverVars

\* Line 38, the scoring function raising: nothing catches it.
ContourScoreRaises ==
  /\ nb_pc = "contour_score"
  /\ scoreCalls' = scoreCalls + 1
  /\ nb_exc' = "ScoringError"
  /\ nb_pc' = "raised"
  /\ UNCHANGED <<nb_args, x_coords, y_coords, x_grid, y_grid, grid, z_grid,
                 sk_model, nb_ret>>
  /\ UNCHANGED driverVars

\* Lines 39-40: the scores take the mesh's shape; the four results return.
ContourReturn ==
  /\ nb_pc = "contour_return"
  /\ z_grid' = reshape(z_grid, shape(x_grid))
  /\ nb_ret' = [kind |-> "contour", z_grid |-> z_grid', x_coords |-> x_coords,
                y_coords |-> y_coords, grid |-> grid]
  /\ nb_pc' = "returned"
  /\ UNCHANGED <<nb_args, x_coords, y_coords, x_grid, y_grid, grid, sk_model,
                 nb_exc, scoreCalls>>
  /\ UNCHANGED driverVars

\* A call get_sk_model(sk_model_name).
CallGetSkModel ==
  /\ nb_pc = "idle"
  /\ \E name \in ModelNames :
       nb_args' = [fn |-> "get_sk_model", sk_model_name |-> name]
  /\ nb_pc' = "model_select"
  /\ UNCHANGED <<x_coords, y_coords, x_grid, y_grid, grid, z_grid, sk_model,
                 nb_ret, nb_exc, scoreCalls>>
  /\ UNCHANGED driverVars

\* Lines 60-64: if / elif with no else: another name assigns nothing.
SelectModel ==
  /\ nb_pc = "model_select"
  /\ sk_model' =
       IF nb_args.sk_model_name = "if"
         THEN IsolationForest(outliers_fraction)
       ELSE IF nb_args.sk_model_name = "ocsvm"
         THEN OneClassSVM(outliers_fraction, "rbf", "scale")
       ELSE sk_model
  /\ nb_pc' = "model_return"
  /\ UNCHANGED <<nb_args, x_coords, y_coords, x_grid, y_grid, grid, z_grid,
                 nb_ret, nb_exc, scoreCalls>>
  /\ UNCHANGED driverVars

\* Line 65: return sk_model; reading the unassigned local raises
\* UnboundLocalError.
ReturnModel ==
  /\ nb_pc = "model_return"
  /\ IF sk_model.kind = "unbound"
       THEN /\ nb_exc' = "UnboundLocalError"
            /\ nb_pc' = "raised"
            /\ UNCHANGED nb_ret
       ELSE /\ nb_ret' = sk_model
            /\ nb_pc' = "returned"
            /\ UNCHANGED nb_exc
  /\ UNCHANGED <<nb_args, x_coords, y_coords, x_grid, y_grid, grid, z_grid,
                 sk_model, scoreCalls>>
  /\ UNCHANGED driverVars

NotebookNext ==
  \/ CallGetSkContour \/ ContourCoords \/ ContourGrid \/ ContourScore
  \/ ContourScoreRaises \/ ContourReturn
  \/ CallGetSkModel \/ SelectModel \/ ReturnModel

NotebookSpec == NotebookInit /\ [][NotebookNext]_vars

(* ============================ the claims ============================== *)

ClassSet == {classes[k] : k \in DOMAIN classes}

\* The (class, repeat-index) pairs of the sub-invocations issued so far.
Pairs == {<<invocations[k].c, invocations[k].i>> : k \in DOMAIN invocations}

\* C1, as stated: a finished driver has issued 8*n sub-invocations, each for
\* another (class, repeat-index) pair, and no two of them were given the same
\* environment.
C1_DistinctEnvironments ==
  pc = "done" =>
    /\ Len(invocations) = 8 * argv.n
    /\ \A k1, k2 \in DOMAIN invocations :
         k1 # k2 =>
           /\ <<invocations[k1].c, invocations[k1].i>>
                # <<invocations[k2].c, invocations[k2].i>>
           /\ invocations[k1].env # invocations[k2].env

\* C1, amended: a finished driver has issued 8*n sub-invocations, one for each
\* (class, repeat-index) pair of the 8 classes and the repeats 1..n; the
\* environment reflects the class alone: two sub-invocations were given the
\* same environment exactly when they are for the same class.
C1_OneRunPerPair ==
  pc = "done" =>
    /\ Cardinality(ClassSet) = 8
    /\ Len(invocations) = 8 * argv.n
    /\ Pairs = ClassSet \X (1..argv.n)
    /\ \A k1, k2 \in DOMAIN invocations :
         /\ k1 # k2 => <<invocations[k1].c, invocations[k1].i>>
                         # <<invocations[k2].c, invocations[k2].i>>
         /\ (invocations[k1].env = invocations[k2].env)
              <=> (invocations[k1].c = invocations[k2].c)

\* C1: the driver finished a run with repeat count 2: 16 sub-invocations.
C1_Witness ==
  pc = "done" /\ argv.n = 2 /\ Len(invocations) = 16

\* C2: at most one sub-invocation is active at any time, and it is the last
\* one issued: every earlier one has run to completion.
C2_Sequential ==
  /\ Cardinality(active) <= 1
  /\ \A k \in DOMAIN invocations : k < Len(invocations) => k \notin active

\* C2: a second sub-invocation is running, after the first has exited.
C2_Witness ==
  Len(invocations) >= 2 /\ active = {Len(invocations)}

\* C3: whatever the exit statuses of the children, the driver eventually
\* finishes having issued all 8*n sub-invocations, one per (class, repeat).
C3_ContinueOnFailure ==
  <>(/\ pc = "done"
     /\ Len(invocations) = 8 * argv.n
     /\ Pairs = ClassSet \X (1..argv.n))

\* C3: the driver finished a run in which every one of the 16 children failed.
C3_Witness ==
  /\ pc = "done"
  /\ argv.n = 2
  /\ failures = 16
  /\ Len(invocations) = 16

\* C4: every sub-invocation is for a class of the list and starts with
\* DATASET_NAME = mnist, IN_CLASS = its class c and
\* WANDB_GROUP = "mnist" c "_" tag, tag being $2; the group is the same for
\* all repeats of a class.
C4_RunEnvironment ==
  /\ \A k \in DOMAIN invocations :
       LET v == invocations[k]
       IN /\ v.c \in ClassSet
          /\ v.env.DATASET_NAME = "mnist"
          /\ v.env.IN_CLASS = v.c
          /\ v.env.WANDB_GROUP = "mnist" \o v.c \o "_" \o argv.tag
  /\ \A k1, k2 \in DOMAIN invocations :
       invocations[k1].c = invocations[k2].c
         => invocations[k1].env.WANDB_GROUP = invocations[k2].env.WANDB_GROUP

\* C4: the second repeat for class 5 is running under tag xp1, in group
\* mnist5_xp1.
C4_Witness ==
  \E k \in active :
    /\ invocations[k].c = "5"
    /\ invocations[k].i = 2
    /\ argv.tag = "xp1"
    /\ invocations[k].env.WANDB_GROUP = "mnist5_xp1"

\* get_sk_contour has returned.
ContourReturned == nb_args.fn = "get_sk_contour" /\ nb_pc = "returned"

\* cs holds r values, evenly spaced and strictly increasing from a to b.
EvenlySpaced(cs, a, b, r) ==
  /\ cs.den > 0
  /\ Len(cs.num) = r
  /\ cs.num[1] = a * cs.den
  /\ cs.num[r] = b * cs.den
  /\ \A k \in 1..(r - 1) :
       /\ cs.num[k] < cs.num[k + 1]
       /\ cs.num[k + 1] - cs.num[k] = cs.num[2] - cs.num[1]

\* C5: for a domain [a, b] with a < b and a resolution r >= 2, the x- and the
\* y-coordinates returned each have r elements, strictly increasing and evenly
\* spaced, the first a and the last b.
C5_Coordinates ==
  (/\ ContourReturned
   /\ nb_args.domain[1] < nb_args.domain[2]
   /\ nb_args.resolution >= 2)
    => /\ EvenlySpaced(nb_ret.x_coords, nb_args.domain[1], nb_args.domain[2],
                       nb_args.resolution)
       /\ EvenlySpaced(nb_ret.y_coords, nb_args.domain[1], nb_args.domain[2],
                       nb_args.resolution)

\* C5: a call on [-1, 2] with resolution 3 returned; the middle coordinate,
\* 1/2, is no integer.
C5_Witness ==
  /\ ContourReturned
  /\ nb_args.domain = <<-1, 2>>
  /\ nb_args.resolution = 3
  /\ nb_ret.x_coords.num[2] * 2 = nb_ret.x_coords.den

\* C6: the surface returned has r rows of r values, and the value in row j
\* (y, the outer index) and column i (x, the inner index) is the score of
\* (x_i, y_j).
C6_Surface ==
  ContourReturned =>
    LET r == nb_args.resolution
        z == nb_ret.z_grid
        x == nb_ret.x_coords
        y == nb_ret.y_coords
    IN /\ Len(z) = r
       /\ \A j \in 1..r : Len(z[j]) = r
       /\ \A i, j \in 1..r :
            z[j][i] = ScorePoint(nb_args.model, <<x.num[i], y.num[j]>>, x.den)

\* C6: a 3 x 3 surface returned whose values at (1, 2) and (2, 1) differ.
C6_Witness ==
  /\ ContourReturned
  /\ nb_args.resolution = 3
  /\ nb_args.domain = <<0, 2>>
  /\ nb_ret.z_grid[1][2] # nb_ret.z_grid[2][1]

\* get_sk_model has returned or raised.
FactoryDone ==
  nb_args.fn = "get_sk_model" /\ nb_pc \in {"returned", "raised"}

\* The result is an isolation forest of outlier fraction 0.05.
IsForest005 ==
  /\ nb_pc = "returned"
  /\ nb_ret.kind = "IsolationForest"
  /\ nb_ret.contamination = <<5, 100>>

\* The result is a one-class SVM of nu 0.05, rbf kernel, gamma 'scale'.
IsSvm005 ==
  /\ nb_pc = "returned"
  /\ nb_ret.kind = "OneClassSVM"
  /\ nb_ret.nu = <<5, 100>>
  /\ nb_ret.kernel = "rbf"
  /\ nb_ret.gamma = "scale"

\* C7, as stated: the factory called with "isolation-forest" returns an
\* isolation forest of outlier fraction 0.05, and called with "one-class-svm"
\* a one-class SVM of nu 0.05, rbf kernel and scaled gamma.
C7_FactoryBySpecNames ==
  FactoryDone =>
    /\ nb_args.sk_model_name = "isolation-forest" => IsForest005
    /\ nb_args.sk_model_name = "one-class-svm" => IsSvm005

\* C7, amended: the factory called with "if" returns an isolation forest of
\* outlier fraction 0.05, and called with "ocsvm" a one-class SVM of nu 0.05,
\* rbf kernel and scaled gamma.
C7_FactoryByCodeNames ==
  FactoryDone =>
    /\ nb_args.sk_model_name = "if" => IsForest005
    /\ nb_args.sk_model_name = "ocsvm" => IsSvm005

\* C7: the factory returned for "ocsvm".
C7_Witness ==
  FactoryDone /\ nb_args.sk_model_name = "ocsvm" /\ nb_pc = "returned"

\* C8: the factory called with an identifier it does not know raises
\* UnknownModelKind and returns no model.
C8_UnknownModelKind ==
  (FactoryDone /\ nb_args.sk_model_name \notin {"if", "ocsvm"})
    => nb_pc = "raised" /\ nb_exc = "UnknownModelKind"

\* C9: get_sk_contour called with a resolution <= 1 or with bounds min >= max
\* never calls the scoring function, returns no surface, and ends raising
\* InvalidDomain.
C9_InvalidDomain ==
  (/\ nb_args.fn = "get_sk_contour"
   /\ \/ nb_args.resolution <= 1
      \/ nb_args.domain[1] >= nb_args.domain[2])
    => /\ scoreCalls = 0
       /\ nb_pc # "returned"
       /\ nb_pc = "raised" => nb_exc = "InvalidDomain"

\* The flat grid g is the product of the sequences x and y of length r, x
\* inner and y outer.
RowMajorProduct(g, x, y, r) ==
  /\ Len(g) = r * r
  /\ {g[k] : k \in DOMAIN g} = {x[i] : i \in DOMAIN x} \X {y[j] : j \in DOMAIN y}
  /\ \A k \in 0..(r * r - 1) : g[k + 1] = <<x[(k % r) + 1], y[(k \div r) + 1]>>

\* C10: the flat grid returned for resolution r has r*r points, which as a
\* set are the product of the x- and y-coordinates, no point twice, listed
\* with y outer and x inner; resolution 3 on [0, 2] gives x = y = [0, 1, 2].
C10_GridIsProduct ==
  ContourReturned =>
    LET r == nb_args.resolution
        g == nb_ret.grid
        x == nb_ret.x_coords
        y == nb_ret.y_coords
    IN /\ RowMajorProduct(g, x.num, y.num, r)
       /\ \A k1, k2 \in DOMAIN g : k1 # k2 => g[k1] # g[k2]
       /\ (r = 3 /\ nb_args.domain = <<0, 2>>)
            => /\ x.num = [k \in 1..3 |-> (k - 1) * x.den]
               /\ y.num = [k \in 1..3 |-> (k - 1) * y.den]

\* The same on a domain whose bounds differ (min # max).
C10_OnDistinctBounds ==
  nb_args.fn = "get_sk_contour" /\ nb_args.domain[1] # nb_args.domain[2]
    => C10_GridIsProduct

====
